---- MODULE Spec2Model ----
(***************************************************************************)
(* Model of scale_and_slide.py: the scale pyramid (get_scaled_images), the *)
(* sliding window (sliding_window), their composition (get_image_chunks)   *)
(* and the driver test() with its grid display (display_crops).            *)
(*                                                                         *)
(* An image is modelled by its size, by the size of the full raster it     *)
(* shows a part of (base) and by the offset of that part (left, top).      *)
(* PIL's resize and crop are taken to return an image of the requested     *)
(* size.  Increments are fractions <<num, den>>; the ones drawn here are    *)
(* dyadic, so the float arithmetic of the source is exact on them.         *)
(***************************************************************************)
EXTENDS Integers, Sequences, FiniteSets, TLC

VARIABLES img, window_dim, stride, num_rescales, rescale_increment,
          pc, scaled_images, crops, sw, result, rescaled_images, i, grid

vars == <<img, window_dim, stride, num_rescales, rescale_increment,
          pc, scaled_images, crops, sw, result, rescaled_images, i, grid>>

inputs == <<img, window_dim, stride, num_rescales, rescale_increment>>

\* ---- bounds of the model ----
MaxDim == 5
MaxStride == 4
MaxCount == 3

\* per-step shrink factors in (0, 1), as <<numerator, denominator>>
Increments == { <<1, 2>>, <<1, 4>>, <<3, 4>> }

\* ---- arithmetic helpers ----
RECURSIVE Pow(_, _)
Pow(b, e) == IF e <= 0 THEN 1 ELSE b * Pow(b, e - 1)

\* math.ceil(a / b) for b > 0
Ceil(a, b) == -((-a) \div b)

Min(a, b) == IF a <= b THEN a ELSE b

\* ---- images ----
\* an image as decoded by Image.open: the whole of its own raster
NewImage(W, H) ==
    [width |-> W, height |-> H, left |-> 0, top |-> 0, base |-> <<W, H>>]

\* img.resize(new_dims): the whole picture resampled to new_dims
Resize(im, new_dims) ==
    [width |-> new_dims[1], height |-> new_dims[2], left |-> 0, top |-> 0,
     base |-> new_dims]

\* image.crop(crop_bounds): the part of im inside (left, upper, right, lower)
Crop(im, b) ==
    [width |-> b[3] - b[1], height |-> b[4] - b[2],
     left |-> im.left + b[1], top |-> im.top + b[2], base |-> im.base]

Size(im) == <<im.width, im.height>>

\* ---- get_scaled_images ----
\* resize_amount = increment ** (count - 1 - i); new_dims = (int(w * a), int(h * a))
NewDimsBadExponent(im, count, increment, k) ==
    << (im.width * Pow(increment[1], k + 1)) \div Pow(increment[2], k + 1),
       (im.height * Pow(increment[1], k + 1)) \div Pow(increment[2], k + 1) >>

NewDims(im, count, increment, k) ==
    << (im.width * Pow(increment[1], count - 1 - k))
           \div Pow(increment[2], count - 1 - k),
       (im.height * Pow(increment[1], count - 1 - k))
           \div Pow(increment[2], count - 1 - k) >>

\* for i in range(count - 1): imgs.append(img.resize(new_dims))
RECURSIVE ScaleLoop(_, _, _, _, _)
ScaleLoop(im, count, increment, k, imgs) ==
    IF k >= count - 1 THEN imgs
    ELSE ScaleLoop(im, count, increment, k + 1,
                   Append(imgs, Resize(im, NewDims(im, count, increment, k))))

get_scaled_images_no_original(im, count, increment) ==
    ScaleLoop(im, count + 1, increment, 0, <<>>)

get_scaled_images(im, count, increment) ==
    Append(ScaleLoop(im, count, increment, 0, <<>>), im)

\* ---- sliding_window ----
\* the guard of the ValueError
WindowTooLargeBoth(image, wd) ==
    wd[1] > image.width /\ wd[2] > image.height

WindowTooLarge(image, wd) ==
    wd[1] > image.width \/ wd[2] > image.height

\* the crop bounds of loop position (x, y), overflow adjusted
CropBoundsNoClamp(image, wd, x, y) ==
    <<x, y, x + wd[1], y + wd[2]>>

CropBoundsShrink(image, wd, x, y) ==
    <<x, y, Min(x + wd[1], image.width), Min(y + wd[2], image.height)>>

CropBounds(image, wd, x, y) ==
    LET left_bound == x
        right_bound == left_bound + wd[1]
        upper_bound == y
        lower_bound == upper_bound + wd[2]
        vert == IF image.height < lower_bound
                THEN <<image.height - wd[2], image.height>>
                ELSE <<upper_bound, lower_bound>>
        horz == IF image.width < right_bound
                THEN <<image.width - wd[1], image.width>>
                ELSE <<left_bound, right_bound>>
    IN  <<horz[1], vert[1], horz[2], vert[2]>>

\* if right_bound == image.width: break
RowBreakNever(image, crop_bounds) == FALSE

RowBreak(image, crop_bounds) == crop_bounds[3] = image.width

\* the next value of range(0, stop, step) after v
RangeNextDouble(v, step) == v + 2 * step

RangeNext(v, step) == v + step

\* for x in range(0, image.width, stride): ...
RECURSIVE RowLoop(_, _, _, _, _, _)
RowLoop(image, wd, st, y, x, pictures) ==
    IF x >= image.width THEN pictures
    ELSE LET crop_bounds == CropBounds(image, wd, x, y)
             pict == [crop |-> Crop(image, crop_bounds),
                      crop_bounds |-> crop_bounds]
         IN  IF RowBreak(image, crop_bounds)
             THEN Append(pictures, pict)
             ELSE RowLoop(image, wd, st, y, RangeNext(x, st),
                          Append(pictures, pict))

\* for y in range(0, image.height, stride): ...
RECURSIVE SlideLoop(_, _, _, _, _)
SlideLoop(image, wd, st, y, pictures) ==
    IF y >= image.height THEN pictures
    ELSE SlideLoop(image, wd, st, RangeNext(y, st),
                   RowLoop(image, wd, st, y, 0, pictures))

\* the outcome of one call: raised, or the list pictures and the crops returned
sliding_window(image, wd, st) ==
    IF WindowTooLarge(image, wd)
    THEN [called |-> TRUE, image |-> image, raised |-> TRUE,
          pictures |-> <<>>, ret |-> <<>>]
    ELSE LET pictures == SlideLoop(image, wd, st, 0, <<>>)
         IN  [called |-> TRUE, image |-> image, raised |-> FALSE,
              pictures |-> pictures,
              ret |-> [k \in 1..Len(pictures) |-> pictures[k].crop]]

\* ---- get_image_chunks ----
\* for im in scaled_images: the level of the next iteration
NextLevelReversed(levels, done) == levels[Len(levels) - Len(done)]

NextLevel(levels, done) == levels[Len(done) + 1]

\* ---- display_crops ----
display_crops(im, cr, wd, st) ==
    LET rows == 1 + Ceil(im.height - wd[2], st)
        columns == 1 + Ceil(im.width - wd[1], st)
    IN  [shown |-> TRUE, rows |-> rows, columns |-> columns,
         len |-> Len(cr), raised |-> columns * rows > Len(cr)]

\* ---- inputs ----
\* the two worked examples of the documentation: 200x200 and 150x150,
\* window (100, 100), stride 100
ExampleInputs ==
    { <<NewImage(200, 200), <<100, 100>>, 100, 1, <<1, 2>> >>,
      <<NewImage(150, 150), <<100, 100>>, 100, 1, <<1, 2>> >> }

SmallInputs ==
    { <<NewImage(W, H), <<w, h>>, s, c, inc>> :
        W \in 1..MaxDim, H \in 1..MaxDim, w \in 1..MaxDim, h \in 1..MaxDim,
        s \in 1..MaxStride, c \in 1..MaxCount, inc \in Increments }

Inputs == SmallInputs \cup ExampleInputs

NotCalled(im) ==
    [called |-> FALSE, image |-> im, raised |-> FALSE,
     pictures |-> <<>>, ret |-> <<>>]

NoGrid == [shown |-> FALSE, rows |-> 0, columns |-> 0, len |-> 0,
           raised |-> FALSE]

Init ==
    /\ \E inp \in Inputs :
          /\ img = inp[1]
          /\ window_dim = inp[2]
          /\ stride = inp[3]
          /\ num_rescales = inp[4]
          /\ rescale_increment = inp[5]
    /\ pc = "get_image_chunks"
    /\ scaled_images = <<>>
    /\ crops = <<>>
    /\ sw = NotCalled(img)
    /\ result = [returned |-> FALSE, value |-> <<>>]
    /\ rescaled_images = <<>>
    /\ i = 0
    /\ grid = NoGrid

\* get_image_chunks, lines 182-187: build the pyramid, start with no crops
GetImageChunksScale ==
    /\ pc = "get_image_chunks"
    /\ scaled_images' = get_scaled_images(img, num_rescales, rescale_increment)
    /\ crops' = <<>>
    /\ pc' = "slide"
    /\ UNCHANGED <<inputs, sw, result, rescaled_images, i, grid>>

\* get_image_chunks, lines 189-190: one iteration of the loop over the levels;
\* a ValueError of sliding_window leaves the function
GetImageChunksSlideRecover ==
    /\ pc = "slide"
    /\ Len(crops) < Len(scaled_images)
    /\ LET r == sliding_window(NextLevel(scaled_images, crops),
                               window_dim, stride)
       IN  /\ sw' = r
           /\ crops' = Append(crops, r.ret)
           /\ UNCHANGED pc
    /\ UNCHANGED <<inputs, scaled_images, result, rescaled_images, i, grid>>

GetImageChunksSlide ==
    /\ pc = "slide"
    /\ Len(crops) < Len(scaled_images)
    /\ LET r == sliding_window(NextLevel(scaled_images, crops),
                               window_dim, stride)
       IN  /\ sw' = r
           /\ IF r.raised
              THEN /\ pc' = "ValueError"
                   /\ UNCHANGED crops
              ELSE /\ crops' = Append(crops, r.ret)
                   /\ UNCHANGED pc
    /\ UNCHANGED <<inputs, scaled_images, result, rescaled_images, i, grid>>

\* get_image_chunks, line 193: return crops
GetImageChunksReturn ==
    /\ pc = "slide"
    /\ Len(crops) = Len(scaled_images)
    /\ result' = [returned |-> TRUE, value |-> crops]
    /\ pc' = "rescale"
    /\ UNCHANGED <<inputs, scaled_images, crops, sw, rescaled_images, i, grid>>

\* test, line 210: the pyramid once more, for the display
TestRescale ==
    /\ pc = "rescale"
    /\ rescaled_images' =
           get_scaled_images(img, num_rescales, rescale_increment)
    /\ i' = 0
    /\ pc' = "display"
    /\ UNCHANGED <<inputs, scaled_images, crops, sw, result, grid>>

\* test, lines 213-214: display_crops on level i; crops[i] past the end of
\* the list is an IndexError
TestDisplay ==
    /\ pc = "display"
    /\ i < num_rescales
    /\ LET d == display_crops(rescaled_images[i + 1], result.value[i + 1],
                              window_dim, stride)
       IN  /\ grid' = d
           /\ IF d.raised
              THEN /\ pc' = "IndexError"
                   /\ UNCHANGED i
              ELSE /\ i' = i + 1
                   /\ UNCHANGED pc
    /\ UNCHANGED <<inputs, scaled_images, crops, sw, result, rescaled_images>>

\* test, line 213: the loop over the levels is exhausted
TestDone ==
    /\ pc = "display"
    /\ i = num_rescales
    /\ pc' = "done"
    /\ UNCHANGED <<inputs, scaled_images, crops, sw, result, rescaled_images,
                   i, grid>>

Next ==
    \/ GetImageChunksScale
    \/ GetImageChunksSlide
    \/ GetImageChunksReturn
    \/ TestRescale
    \/ TestDisplay
    \/ TestDone

Spec == Init /\ [][Next]_vars

\* ---------------------------------------------------------------------
\* Properties
\* ---------------------------------------------------------------------

\* the window fits in the image
Fits(image) ==
    window_dim[1] <= image.width /\ window_dim[2] <= image.height

\* sliding_window has been called on an image the window fits in
SlidFitting == sw.called /\ Fits(sw.image)

\* the boxes of the last sliding_window call, in the order emitted
Boxes == [k \in 1..Len(sw.pictures) |-> sw.pictures[k].crop_bounds]

\* a row of boxes starts at each box whose left is 0
RowStarts == { k \in 1..Len(Boxes) : Boxes[k][1] = 0 }

RowOf(k) == CHOOSE r \in RowStarts :
                r <= k /\ \A q \in RowStarts : q <= k => q <= r

RowLen(r) == Cardinality({ k \in 1..Len(Boxes) : RowOf(k) = r })

NoRepeatedRow ==
    \A r1, r2 \in RowStarts : r1 # r2 => Boxes[r1][2] # Boxes[r2][2]

GetImageChunksLeft == pc \in {"rescale", "display", "done", "IndexError"}

\* C1: every box emitted by sliding_window on an image the window fits in
\* has exactly the window's width and height and lies inside the image
\* (0 <= left < right <= W, 0 <= top < bottom <= H), clamped or not; the
\* crop cut at it has the window's size.
C1_BoxesInsideImage ==
    SlidFitting =>
        \A k \in 1..Len(sw.pictures) :
            LET b == sw.pictures[k].crop_bounds
            IN  /\ b[3] - b[1] = window_dim[1]
                /\ b[4] - b[2] = window_dim[2]
                /\ 0 <= b[1] /\ b[1] < b[3] /\ b[3] <= sw.image.width
                /\ 0 <= b[2] /\ b[2] < b[4] /\ b[4] <= sw.image.height
                /\ Size(sw.pictures[k].crop) = window_dim

\* a box clamped on both axes has been emitted
C1_Witness ==
    /\ SlidFitting
    /\ \E k \in 1..Len(Boxes) :
          /\ Boxes[k][3] = sw.image.width /\ Boxes[k][1] % stride # 0
          /\ Boxes[k][4] = sw.image.height /\ Boxes[k][2] % stride # 0

C3_RaisesIffWindowTooLarge ==
    sw.called =>
        /\ sw.raised <=> (window_dim[1] > sw.image.width
                            \/ window_dim[2] > sw.image.height)
        /\ sw.raised => sw.pictures = <<>> /\ sw.ret = <<>>
        /\ ~sw.raised =>
              /\ Len(sw.ret) >= 1
              /\ \A k \in 1..Len(sw.ret) : Size(sw.ret[k]) = window_dim

\* the call failed on a window that is too high only
C3_Witness ==
    /\ sw.called /\ sw.raised
    /\ window_dim[1] <= sw.image.width
    /\ window_dim[2] > sw.image.height

\* C4: when every pyramid level is at least as large as the window,
\* get_image_chunks does not fail and returns num_rescales crop sequences,
\* the k-th being sliding_window of the k-th level of get_scaled_images,
\* the last being sliding_window of the original image.
C4_ChunksAlignedWithPyramid ==
    LET levels == get_scaled_images(img, num_rescales, rescale_increment)
        expected(k) == sliding_window(levels[k], window_dim, stride).ret
    IN  (pc # "get_image_chunks" /\ \A k \in 1..Len(levels) : Fits(levels[k]))
        =>  /\ pc # "ValueError"
            /\ \A k \in 1..Len(crops) : crops[k] = expected(k)
            /\ GetImageChunksLeft =>
                  /\ result.returned
                  /\ Len(result.value) = num_rescales
                  /\ \A k \in 1..num_rescales : result.value[k] = expected(k)
                  /\ result.value[num_rescales]
                        = sliding_window(img, window_dim, stride).ret

\* a result of two or more crop sequences has been returned
C4_Witness ==
    /\ result.returned
    /\ num_rescales >= 2
    /\ \A k \in 1..Len(scaled_images) : Fits(scaled_images[k])

\* C5: if a pyramid level is smaller than the window, get_image_chunks never
\* returns: the loop cannot get past that level, it ends in the ValueError of
\* sliding_window, and no list of crop sequences is handed to the caller.
C5_TooSmallLevelAbortsCall ==
    (pc # "get_image_chunks"
       /\ \E k \in 1..Len(scaled_images) : ~Fits(scaled_images[k]))
    =>  /\ ~result.returned
        /\ pc \in {"slide", "ValueError"}
        /\ \E k \in (Len(crops) + 1)..Len(scaled_images) :
              ~Fits(scaled_images[k])
        /\ pc = "ValueError" =>
              sw.raised /\ sw.image = scaled_images[Len(crops) + 1]

\* the call failed on a shrunk level although the original is large enough
C5_Witness ==
    /\ pc = "ValueError"
    /\ Fits(img)
    /\ ~result.returned

Covered ==
    \A x \in 0..(sw.image.width - 1), y \in 0..(sw.image.height - 1) :
        \E k \in 1..Len(Boxes) :
            /\ Boxes[k][1] <= x /\ x < Boxes[k][3]
            /\ Boxes[k][2] <= y /\ y < Boxes[k][4]

ReachesEdges ==
    /\ \A r \in RowStarts :
          \E k \in 1..Len(Boxes) :
              RowOf(k) = r /\ Boxes[k][3] = sw.image.width
    /\ \E k \in 1..Len(Boxes) : Boxes[k][4] = sw.image.height

\* C6 (as stated): for every window that fits and every stride >= 1 the boxes
\* cover every pixel of the image, every row has a box with right = W and
\* some row has bottom = H.
C6_CoversImage ==
    SlidFitting => Covered /\ ReachesEdges

\* C6 (amended): the same, for a stride no larger than the window's width
\* and height.
C6_CoversImageWhenStrideWithinWindow ==
    (SlidFitting /\ stride <= window_dim[1] /\ stride <= window_dim[2])
        => Covered /\ ReachesEdges

\* a grid of several rows and columns whose last row and column are clamped
C6_Witness ==
    /\ SlidFitting
    /\ stride <= window_dim[1] /\ stride <= window_dim[2]
    /\ Cardinality(RowStarts) >= 2
    /\ Len(Boxes) >= 2 * Cardinality(RowStarts)
    /\ Boxes[Len(Boxes)][1] % stride # 0
    /\ Boxes[Len(Boxes)][2] % stride # 0

GridRows == Ceil(sw.image.height, stride)

GridColumns ==
    Min(Ceil(sw.image.width, stride),
        1 + Ceil(sw.image.width - window_dim[1], stride))

GridBox(n) ==
    LET r == (n - 1) \div GridColumns
        c == (n - 1) % GridColumns
        l == Min(c * stride, sw.image.width - window_dim[1])
        t == Min(r * stride, sw.image.height - window_dim[2])
    IN  <<l, t, l + window_dim[1], t + window_dim[2]>>

\* C8: sliding_window emits the boxes of the clamped grid in row-major
\* order, no box follows a right-edge box in its row, and the 200x200 and
\* 150x150 images with window (100, 100) and stride 100 give exactly the
\* four boxes listed for each.
C8_RowMajorClampThenStop ==
    SlidFitting =>
        /\ Boxes = [n \in 1..(GridRows * GridColumns) |-> GridBox(n)]
        /\ \A k \in 1..(Len(Boxes) - 1) :
              Boxes[k][3] = sw.image.width => Boxes[k + 1][1] = 0
        /\ (sw.image = NewImage(200, 200) /\ window_dim = <<100, 100>>
              /\ stride = 100)
           => Boxes = << <<0, 0, 100, 100>>, <<100, 0, 200, 100>>,
                         <<0, 100, 100, 200>>, <<100, 100, 200, 200>> >>
        /\ (sw.image = NewImage(150, 150) /\ window_dim = <<100, 100>>
              /\ stride = 100)
           => Boxes = << <<0, 0, 100, 100>>, <<50, 0, 150, 100>>,
                         <<0, 50, 100, 150>>, <<50, 50, 150, 150>> >>

\* the 150x150 example has been slid over
C8_Witness ==
    /\ SlidFitting
    /\ sw.image = NewImage(150, 150)
    /\ window_dim = <<100, 100>> /\ stride = 100
    /\ Len(Boxes) = 4

\* C9 (as stated): whenever stride evenly divides H - window height, no two
\* rows of the result have the same top.
C9_NoRepeatedRowWhenStrideDivides ==
    (SlidFitting /\ (sw.image.height - window_dim[2]) % stride = 0)
        => NoRepeatedRow

\* C9 (amended): no two rows have the same top whenever stride is at least
\* the window height; a row is repeated whenever stride is smaller than the
\* window height and divides H - window height.
C9_NoRepeatedRowWhenStrideAtLeastHeight ==
    SlidFitting =>
        /\ stride >= window_dim[2] => NoRepeatedRow
        /\ (stride < window_dim[2]
              /\ (sw.image.height - window_dim[2]) % stride = 0)
           => ~NoRepeatedRow

\* the bottom row has been emitted again although stride divides H - h
C9_Witness ==
    /\ SlidFitting
    /\ stride < window_dim[2]
    /\ (sw.image.height - window_dim[2]) % stride = 0
    /\ sw.image.height > window_dim[2]
    /\ Cardinality(RowStarts) >= 3

\* C10: every row of the crop list has 1 + ceil((W - w) / stride) boxes,
\* the list holds at least rows * columns crops with
\* rows = 1 + ceil((H - h) / stride), and display_crops never indexes past
\* its end.
C10_GridLargeEnoughForDisplay ==
    /\ pc # "IndexError"
    /\ grid.shown => grid.len >= grid.rows * grid.columns
    /\ SlidFitting =>
          /\ \A r \in RowStarts :
                RowLen(r) = 1 + Ceil(sw.image.width - window_dim[1], stride)
          /\ Len(Boxes) >=
                (1 + Ceil(sw.image.height - window_dim[2], stride))
                  * (1 + Ceil(sw.image.width - window_dim[1], stride))

====
